---------------------------- MODULE Spec2Model ----------------------------
(***************************************************************************)
(* Model of the dependent-service bootstrap and verification harness.      *)
(*                                                                         *)
(*  - servers_setup/start_es_server.py: the API process.  Its FastAPI      *)
(*    startup_event runs start_elasticsearch, setup_elasticsearch_index    *)
(*    and start_kibana in that order, and then the API serves /storedata   *)
(*    and /getdata.                                                        *)
(*  - servers_setup/verify_start_es_server.py: the harness.                *)
(*    run_verification launches the API process, polls for readiness,      *)
(*    runs the probes through run_test, generates the report, serves it,   *)
(*    and stops the API process in its finally block.                      *)
(*                                                                         *)
(* HTTP answers are inputs of the environment: every request draws its     *)
(* answer from a small set (success status, another status, a refused      *)
(* connection, another requests exception).  Elasticsearch and Kibana may  *)
(* be instances that exist outside the program, so their answers are not   *)
(* tied to the processes the program launched; the API on FASTAPI_PORT     *)
(* answers only while the launched API process is serving.                 *)
(***************************************************************************)
EXTENDS Integers, Sequences, FiniteSets, TLC

VARIABLES
    \* ---- the API process (start_es_server.py) ----
    cpc,                 \* position of the API process in its startup
    cretries,            \* local i of the readiness loop in progress (0 when
                         \* no loop is in progress: the local is out of scope)
    esStatus,            \* outcome of start_elasticsearch
    indexStatus,         \* outcome of setup_elasticsearch_index
    kbStatus,            \* outcome of start_kibana
    esLaunched,          \* subprocess.Popen of elasticsearch was executed
    kbLaunched,          \* subprocess.Popen of kibana was executed
    startup_exception,   \* exception that left startup_event, or "none"
    index,               \* auids of the documents stored in ES_INDEX
    \* ---- the harness (verify_start_es_server.py) ----
    hpc,                 \* position of the harness
    es_server_process,   \* module global: "None" or the Popen handle "proc"
    attempts,            \* poll attempts made by start_es_server
    started,             \* what start_es_server did: pending/True/False/raised
    lastEs,              \* answer of the latest Elasticsearch poll request
    lastApi,             \* answer of the latest API poll request, or "unasked"
    everBoth,            \* some attempt saw the success status from both
    test_results,        \* module global: the list of test_result dicts
    invoked,             \* names run_test was invoked with, in call order
    doc_id,              \* local of run_verification: run_test's return value
    auid,                \* local of run_verification: the extracted auid
    reportFile,          \* content of REPORT_FILE, or "absent"
    reportServer,        \* the report thread has been started
    report_generated,    \* module global of get_report
    generations,         \* executions of generate_html_report so far
    requests,            \* GET / requests sent to the report server
    reportPending,       \* a request is waiting for get_report's answer
    outcome,             \* how run_verification / the caller ended
    \* ---- process control ----
    termSignals,         \* SIGTERM signals sent by os.killpg
    stopCalls,           \* calls of stop_es_server begun
    stopDone,            \* calls of stop_es_server that returned or raised
    stopError,           \* exception raised by the latest stop_es_server call
    reaped,              \* Popen.wait has collected the API process
    caller,              \* who calls the module: run_verification (the
                         \* script) or a user of the module's functions
    sigterm,             \* SIGTERM disposition of the harness process:
                         \* "default" or "handled" (a handler or SIG_IGN);
                         \* "unset" until the first signal meets it
    signalled,           \* processes a SIGTERM of os.killpg was delivered to
    \* ---- launches and the environment of the services ----
    spawns,              \* subprocess.Popen calls made, per service
    spawnFailed,         \* services whose Popen raised
    polled,              \* services polled for readiness after their launch
    prechecked,          \* per service, what the health check made before
                         \* its launch found: "healthy", "unhealthy", or
                         \* "none" when no such check was made
    flapping             \* services whose health check was flapping (healthy
                         \* and unhealthy in turn) when a poll met it healthy

cvars == <<cpc, cretries, esStatus, indexStatus, kbStatus, esLaunched,
           kbLaunched, startup_exception>>
pvars == <<es_server_process, attempts, started, lastEs, lastApi, everBoth>>
tvars == <<test_results, invoked, doc_id, auid>>
rvars == <<reportFile, reportServer, report_generated, generations,
           requests, reportPending>>
svars == <<termSignals, stopCalls, stopDone, stopError, reaped, caller>>
lvars == <<spawns, spawnFailed, polled, prechecked, flapping>>
gvars == <<signalled, lvars>>
vars  == <<cvars, index, hpc, pvars, tvars, rvars, outcome, svars,
           sigterm, gvars>>

---------------------------------------------------------------------------
(* Bounds of the model.                                                    *)

\* Number of stop_es_server calls a caller of the module makes.
MaxStopCalls == 3
\* GET / requests sent to the report server in one run.
MaxRequests == 2
\* run_test calls made by a user of the module.
MaxResults == 3
\* generate_html_report calls made by a user of the module.
MaxGenerations == 2
\* Length of the longest exception text a probe raises.
MaxTextLen == 2

---------------------------------------------------------------------------
(* Program constants.                                                      *)

\* start_elasticsearch: max_retries = 30
ES_MAX_RETRIES == 30
\* start_kibana: max_retries = 60
KIBANA_MAX_RETRIES == 60
\* start_es_server (harness): max_retries = 30
max_retries == 30

\* The services the program launches: the API process (by the harness),
\* Elasticsearch and Kibana (by the API process).
Services == {"api", "es", "kibana"}

\* requests.get: the status the code compares with (== 200).
OK == "200"
\* Answers of one HTTP request: success status, another status, a refused
\* connection (requests.exceptions.ConnectionError) and any other exception
\* of requests (not a subclass of ConnectionError).
Responses == {"200", "503", "ConnectionError", "RequestException"}

---------------------------------------------------------------------------
(* The API process: start_es_server.py                                     *)

Running == {"spawned", "es_check", "es_launch", "es_wait", "index_setup",
            "kb_check", "kb_launch", "kb_wait", "blocked", "serving"}

\* startup_event: three calls in sequence; an exception raised by one of
\* them leaves startup_event, so the calls after it are not made.
StartupNextNoHalt(step, ok) ==
    CASE step = "es"     -> "index_setup"
      [] step = "index"  -> "kb_check"
      [] step = "kibana" -> "serving"

StartupNext(step, ok) ==
    IF ~ok THEN "failed"
    ELSE CASE step = "es"     -> "index_setup"
           [] step = "index"  -> "kb_check"
           [] step = "kibana" -> "serving"

\* The pre-launch check of start_elasticsearch / start_kibana: "return" when
\* the status is 200, fall through to the launch on another status or a
\* ConnectionError, and let any other exception propagate.
PreCheck(resp) ==
    IF resp = OK THEN "return"
    ELSE IF resp \in {"503", "ConnectionError"} THEN "launch"
    ELSE "raise"

\* One iteration of a readiness loop `for i in range(max)`, with the
\* statement after the loop: "return" on status 200, "retry" while
\* iterations remain, "timeout" (raise RuntimeError) after the last one;
\* an exception that is not a ConnectionError propagates at once.
WaitStep(resp, i, max) ==
    IF resp = OK THEN "return"
    ELSE IF resp = "RequestException" THEN "raise"
    ELSE IF i + 1 < max THEN "retry"
    ELSE "timeout"

\* subprocess.Popen(...) and the statement after it: the readiness loop
\* when the process was started; an OSError of the spawn (binary missing,
\* permission denied) is raised out of the function at once.
SpawnStepIgnore(ok) == "wait"

SpawnStep(ok) == IF ok THEN "wait" ELSE "raise"

\* requests.get(url) is called without timeout= everywhere: requests then
\* waits for the answer without limit.
request_timeout == "None"

\* python starts executing the script (uvicorn.run, then startup_event).
\* Until uvicorn has installed its handlers SIGTERM has its default
\* disposition: a process that was signalled by then does not get further.
ChildBoot ==
    /\ cpc = "spawned"
    /\ "api" \notin signalled
    /\ \E scriptOk \in BOOLEAN :
         IF scriptOk
         THEN cpc' = "es_check" /\ UNCHANGED startup_exception
         ELSE cpc' = "failed" /\ startup_exception' = "script"
    /\ UNCHANGED <<cretries, esStatus, indexStatus, kbStatus, esLaunched,
                   kbLaunched, index, hpc, pvars, tvars, rvars, outcome,
                   svars, sigterm, gvars>>

\* start_elasticsearch, up to the decision to launch: download if ES_DIR is
\* missing, then the already-running check.
ChildEsCheck ==
    /\ cpc = "es_check"
    /\ \E downloadOk \in BOOLEAN, resp \in Responses :
         IF ~downloadOk
         THEN /\ cpc' = "failed"
              /\ startup_exception' = "CalledProcessError"
              /\ UNCHANGED esStatus
         ELSE CASE PreCheck(resp) = "return" ->
                     /\ esStatus' = "ready"
                     /\ cpc' = StartupNext("es", TRUE)
                     /\ UNCHANGED startup_exception
                [] PreCheck(resp) = "launch" ->
                     /\ cpc' = "es_launch"
                     /\ UNCHANGED <<esStatus, startup_exception>>
                [] PreCheck(resp) = "raise" ->
                     /\ cpc' = "failed"
                     /\ startup_exception' = "RequestException"
                     /\ UNCHANGED esStatus
    /\ prechecked' = [prechecked EXCEPT !["es"] =
                         IF cpc' = "failed" THEN @
                         ELSE IF esStatus' = "ready" THEN "healthy"
                         ELSE "unhealthy"]
    /\ UNCHANGED <<cretries, indexStatus, kbStatus, esLaunched, kbLaunched,
                   index, hpc, pvars, tvars, rvars, outcome, svars,
                   sigterm, signalled, spawns, spawnFailed, polled,
                   flapping>>

\* start_elasticsearch: subprocess.Popen([ES_DIR/bin/elasticsearch]).
ChildEsLaunch ==
    /\ cpc = "es_launch"
    /\ \E spawnOk \in BOOLEAN :
         /\ spawns' = [spawns EXCEPT !["es"] = @ + 1]
         /\ spawnFailed' = IF spawnOk THEN spawnFailed
                           ELSE spawnFailed \cup {"es"}
         /\ esLaunched' = (esLaunched \/ spawnOk)
         /\ IF SpawnStep(spawnOk) = "wait"
            THEN /\ cretries' = 0
                 /\ cpc' = "es_wait"
                 /\ UNCHANGED startup_exception
            ELSE /\ cpc' = "failed"
                 /\ startup_exception' = "OSError"
                 /\ UNCHANGED cretries
    /\ UNCHANGED <<esStatus, indexStatus, kbStatus, kbLaunched, index, hpc,
                   pvars, tvars, rvars, outcome, svars, sigterm, signalled,
                   polled, prechecked, flapping>>

\* start_elasticsearch: one iteration of the readiness loop.
ChildEsWait ==
    /\ cpc = "es_wait"
    /\ \E resp \in Responses :
         LET step == WaitStep(resp, cretries, ES_MAX_RETRIES) IN
         CASE step = "return" ->
                /\ esStatus' = "ready"
                /\ cretries' = 0
                /\ cpc' = StartupNext("es", TRUE)
                /\ UNCHANGED startup_exception
           [] step = "retry" ->
                /\ cretries' = cretries + 1
                /\ UNCHANGED <<cpc, esStatus, startup_exception>>
           [] step = "timeout" ->
                /\ esStatus' = "timeout"
                /\ cretries' = 0
                /\ startup_exception' = "RuntimeError"
                /\ cpc' = StartupNext("es", FALSE)
           [] step = "raise" ->
                /\ esStatus' = "error"
                /\ cretries' = 0
                /\ cpc' = "failed"
                /\ startup_exception' = "RequestException"
    /\ polled' = polled \cup {"es"}
    /\ UNCHANGED <<indexStatus, kbStatus, esLaunched, kbLaunched, index, hpc,
                   pvars, tvars, rvars, outcome, svars, sigterm, signalled,
                   spawns, spawnFailed, prechecked, flapping>>

\* setup_elasticsearch_index: create the client and the index; any failure
\* of the client is an exception that leaves startup_event.
ChildIndexSetup ==
    /\ cpc = "index_setup"
    /\ \E ok \in BOOLEAN :
         /\ indexStatus' = IF ok THEN "ready" ELSE "error"
         /\ startup_exception' = IF ok THEN startup_exception
                                 ELSE "ElasticsearchException"
         /\ cpc' = StartupNext("index", ok)
    /\ UNCHANGED <<cretries, esStatus, kbStatus, esLaunched, kbLaunched,
                   index, hpc, pvars, tvars, rvars, outcome, svars,
                   sigterm, gvars>>

\* start_kibana, up to the decision to launch.
ChildKbCheck ==
    /\ cpc = "kb_check"
    /\ \E downloadOk \in BOOLEAN, resp \in Responses :
         IF ~downloadOk
         THEN /\ cpc' = "failed"
              /\ startup_exception' = "CalledProcessError"
              /\ UNCHANGED kbStatus
         ELSE CASE PreCheck(resp) = "return" ->
                     /\ kbStatus' = "ready"
                     /\ cpc' = StartupNext("kibana", TRUE)
                     /\ UNCHANGED startup_exception
                [] PreCheck(resp) = "launch" ->
                     /\ cpc' = "kb_launch"
                     /\ UNCHANGED <<kbStatus, startup_exception>>
                [] PreCheck(resp) = "raise" ->
                     /\ cpc' = "failed"
                     /\ startup_exception' = "RequestException"
                     /\ UNCHANGED kbStatus
    /\ prechecked' = [prechecked EXCEPT !["kibana"] =
                         IF cpc' = "failed" THEN @
                         ELSE IF kbStatus' = "ready" THEN "healthy"
                         ELSE "unhealthy"]
    /\ UNCHANGED <<cretries, esStatus, indexStatus, esLaunched, kbLaunched,
                   index, hpc, pvars, tvars, rvars, outcome, svars,
                   sigterm, signalled, spawns, spawnFailed, polled,
                   flapping>>

\* start_kibana: subprocess.Popen([KIBANA_DIR/bin/kibana]).
ChildKbLaunch ==
    /\ cpc = "kb_launch"
    /\ \E spawnOk \in BOOLEAN :
         /\ spawns' = [spawns EXCEPT !["kibana"] = @ + 1]
         /\ spawnFailed' = IF spawnOk THEN spawnFailed
                           ELSE spawnFailed \cup {"kibana"}
         /\ kbLaunched' = (kbLaunched \/ spawnOk)
         /\ IF SpawnStep(spawnOk) = "wait"
            THEN /\ cretries' = 0
                 /\ cpc' = "kb_wait"
                 /\ UNCHANGED startup_exception
            ELSE /\ cpc' = "failed"
                 /\ startup_exception' = "OSError"
                 /\ UNCHANGED cretries
    /\ UNCHANGED <<esStatus, indexStatus, kbStatus, esLaunched, index, hpc,
                   pvars, tvars, rvars, outcome, svars, sigterm, signalled,
                   polled, prechecked, flapping>>

\* start_kibana: one iteration of the readiness loop.
ChildKbWait ==
    /\ cpc = "kb_wait"
    /\ \E resp \in Responses :
         LET step == WaitStep(resp, cretries, KIBANA_MAX_RETRIES) IN
         CASE step = "return" ->
                /\ kbStatus' = "ready"
                /\ cretries' = 0
                /\ cpc' = StartupNext("kibana", TRUE)
                /\ UNCHANGED startup_exception
           [] step = "retry" ->
                /\ cretries' = cretries + 1
                /\ UNCHANGED <<cpc, kbStatus, startup_exception>>
           [] step = "timeout" ->
                /\ kbStatus' = "timeout"
                /\ cretries' = 0
                /\ startup_exception' = "RuntimeError"
                /\ cpc' = StartupNext("kibana", FALSE)
           [] step = "raise" ->
                /\ kbStatus' = "error"
                /\ cretries' = 0
                /\ cpc' = "failed"
                /\ startup_exception' = "RequestException"
    /\ polled' = polled \cup {"kibana"}
    /\ UNCHANGED <<esStatus, indexStatus, esLaunched, kbLaunched, index, hpc,
                   pvars, tvars, rvars, outcome, svars, sigterm, signalled,
                   spawns, spawnFailed, prechecked, flapping>>

\* A requests.get of the startup (pre-launch check or readiness poll) meets
\* an endpoint that accepts the connection and never answers: without a
\* timeout the call does not return.
ChildBlock ==
    /\ cpc \in {"es_check", "es_wait", "kb_check", "kb_wait"}
    /\ request_timeout = "None"
    /\ cpc' = "blocked"
    /\ cretries' = 0
    /\ UNCHANGED <<esStatus, indexStatus, kbStatus, esLaunched,
                   kbLaunched, startup_exception, index, hpc, pvars, tvars,
                   rvars, outcome, svars, sigterm, gvars>>

\* The API process ends after a SIGTERM sent to its process group: at once
\* while the signal has its default disposition; under uvicorn the handler
\* only sets should_exit, which uvicorn reads when startup_event has
\* returned, so the blocking startup goes on after the signal.
ChildTerminate ==
    /\ cpc \in {"spawned", "serving"}
    /\ "api" \in signalled
    /\ cpc' = "terminated"
    /\ cretries' = 0
    /\ UNCHANGED <<esStatus, indexStatus, kbStatus, esLaunched,
                   kbLaunched, startup_exception, index, hpc, pvars, tvars,
                   rvars, outcome, svars, sigterm, gvars>>

ChildNext ==
    \/ ChildBoot
    \/ ChildEsCheck
    \/ ChildEsLaunch
    \/ ChildEsWait
    \/ ChildIndexSetup
    \/ ChildKbCheck
    \/ ChildKbLaunch
    \/ ChildKbWait
    \/ ChildBlock
    \/ ChildTerminate

---------------------------------------------------------------------------
(* The API's request handlers: start_es_server.py                          *)

\* The auid test_store_data generates ("test_" + 5 random characters).
TEST_AUID == "test_auid"
\* The auid test_invalid_auid asks for.
NONEXISTENT_AUID == "nonexistent_auid"

\* GET /storedata: es_client.index stores the document and the handler
\* answers 200 with status "success" and the document id; an exception of
\* the client becomes HTTPException(500).
store_data(idx, key, esOk) ==
    IF esOk
    THEN [status |-> "200", body |-> "success", document_id |-> "doc_1",
          index |-> idx \cup {key}]
    ELSE [status |-> "500", body |-> "Error storing data",
          document_id |-> "none", index |-> idx]

\* GET /getdata: the documents whose auid matches, with their count.
get_data(idx, key, esOk) ==
    IF esOk
    THEN [status |-> "200", body |-> "success",
          count |-> IF key \in idx THEN 1 ELSE 0]
    ELSE [status |-> "500", body |-> "Error retrieving data", count |-> 0]

\* What requests.get meets when no handler answers: ConnectionError.
refused ==
    [status |-> "ConnectionError", body |-> "none", document_id |-> "none",
     count |-> 0, index |-> index]

---------------------------------------------------------------------------
(* The harness: verify_start_es_server.py                                  *)

\* What the API port answers to the readiness poll: only a serving API
\* process accepts connections.
ApiResponses == IF cpc = "serving" THEN Responses ELSE {"ConnectionError"}

\* Two successive answers of one endpoint to the poll loop, the first
\* healthy and the second not: the health check of the service flaps.
Flaps(before, now) == before = OK /\ now \in {"503", "ConnectionError"}

\* One iteration of the poll loop of start_es_server with the statement
\* after the loop.  The API is asked only when Elasticsearch answered 200.
PollStepEsOnly(es, api, i) ==
    IF es = "RequestException" THEN "raise"
    ELSE IF es = OK THEN "return_true"
    ELSE IF i + 1 < max_retries THEN "retry"
    ELSE "return_false"

PollStep(es, api, i) ==
    IF es = "RequestException" THEN "raise"
    ELSE IF es = OK /\ api = "RequestException" THEN "raise"
    ELSE IF es = OK /\ api = OK THEN "return_true"
    ELSE IF i + 1 < max_retries THEN "retry"
    ELSE "return_false"

\* run_verification: `if not start_es_server(): return False`, inside the
\* try block, so the finally block follows the return.
AfterStartEsServerNoGuard(ok) == "test_conn"

AfterStartEsServerNoFinally(ok) == IF ok THEN "test_conn" ELSE "returned"

AfterStartEsServer(ok) == IF ok THEN "test_conn" ELSE "finally"

\* Positions inside the try block of run_verification.
TryBlock == {"launch", "poll", "test_conn", "test_store", "extract",
             "test_invalid", "gen_report", "start_server", "serve",
             "blocked"}

\* start_es_server: subprocess.Popen([sys.executable, ES_SERVER_SCRIPT]).
\* An OSError of the spawn leaves start_es_server before the global is
\* assigned.
HLaunch ==
    /\ hpc = "launch"
    /\ \E spawnOk \in BOOLEAN :
         /\ spawns' = [spawns EXCEPT !["api"] = @ + 1]
         /\ spawnFailed' = IF spawnOk THEN spawnFailed
                           ELSE spawnFailed \cup {"api"}
         /\ IF SpawnStep(spawnOk) = "wait"
            THEN /\ es_server_process' = "proc"
                 /\ cpc' = "spawned"
                 /\ attempts' = 0
                 /\ hpc' = "poll"
                 /\ UNCHANGED <<started, outcome>>
            ELSE /\ started' = "raised"
                 /\ hpc' = IF caller = "run_verification" THEN "finally"
                           ELSE "caller"
                 /\ outcome' = IF caller = "run_verification"
                               THEN "Exception" ELSE outcome
                 /\ UNCHANGED <<es_server_process, cpc, attempts>>
    /\ UNCHANGED <<cretries, esStatus, indexStatus, kbStatus, esLaunched,
                   kbLaunched, startup_exception, index, lastEs, lastApi,
                   everBoth, tvars, rvars, svars, sigterm, signalled, polled,
                   prechecked, flapping>>

\* start_es_server: one iteration of the poll loop (and the return after
\* the last one), then the caller's use of the returned value.
HPoll ==
    /\ hpc = "poll"
    /\ \E es \in Responses, apiAnswer \in ApiResponses :
         LET api  == IF es = OK THEN apiAnswer ELSE "unasked"
             step == PollStep(es, api, attempts)
         IN  /\ lastEs' = es
             /\ lastApi' = api
             /\ everBoth' = (everBoth \/ (es = OK /\ api = OK))
             /\ attempts' = attempts + 1
             /\ polled' = polled \cup {"api"}
             /\ flapping' = IF Flaps(lastEs, es) THEN flapping \cup {"es"}
                            ELSE flapping
             /\ CASE step = "retry" ->
                       UNCHANGED <<hpc, started, outcome>>
                  [] step = "return_true" ->
                       /\ started' = "True"
                       /\ hpc' = IF caller = "run_verification"
                                 THEN AfterStartEsServer(TRUE) ELSE "caller"
                       /\ UNCHANGED outcome
                  [] step = "return_false" ->
                       /\ started' = "False"
                       /\ hpc' = IF caller = "run_verification"
                                 THEN AfterStartEsServer(FALSE) ELSE "caller"
                       /\ outcome' = IF caller = "run_verification"
                                     THEN "False" ELSE outcome
                  [] step = "raise" ->
                       /\ started' = "raised"
                       /\ hpc' = IF caller = "run_verification"
                                 THEN "finally" ELSE "caller"
                       /\ outcome' = IF caller = "run_verification"
                                     THEN "Exception" ELSE outcome
    /\ UNCHANGED <<cvars, index, es_server_process, tvars, rvars, svars,
                   sigterm, signalled, spawns, spawnFailed, prechecked>>

\* A requests.get of the harness (a poll of start_es_server or the call of
\* a probe) meets an endpoint that accepts the connection and never
\* answers: without a timeout the call does not return.
HBlock ==
    /\ hpc \in {"poll", "test_conn", "test_store", "test_invalid"}
    /\ request_timeout = "None"
    /\ hpc' = "blocked"
    /\ UNCHANGED <<cvars, index, pvars, tvars, rvars, outcome, svars,
                   sigterm, gvars>>

\* An external interrupt (KeyboardInterrupt) while run_verification is in
\* its try block: the except clause logs it and the finally block follows.
\* The interrupt arrives between two statements of the try block.
Interrupt ==
    /\ caller = "run_verification"
    /\ hpc \in TryBlock
    /\ hpc' = "finally"
    /\ outcome' = "KeyboardInterrupt"
    /\ started' = IF started = "pending" THEN "raised" ELSE started
    /\ UNCHANGED <<cvars, index, es_server_process, attempts, lastEs,
                   lastApi, everBoth, tvars, rvars, svars, sigterm, gvars>>

---------------------------------------------------------------------------
(* run_test and the probes                                                 *)

\* The dict run_test builds from the probe's outcome: exc is the text of
\* the exception the probe raised, or "none" when it returned.  The keys
\* "duration" and "timestamp" are readings of the wall clock and are left
\* out of the record.
test_result(name, exc) ==
    [name    |-> name,
     success |-> (exc = "none"),
     message |-> IF exc = "none" THEN "Test passed"
                 ELSE "Test failed: " \o exc]

\* test_results.append(test_result)
AppendResultFront(results, r) == <<r>> \o results

AppendResult(results, r) == Append(results, r)

\* test_elasticsearch_connection: the exception text, or "none".
test_elasticsearch_connection(resp) ==
    IF resp = OK THEN "none"
    ELSE IF resp \in {"ConnectionError", "RequestException"} THEN resp
    ELSE "Elasticsearch server returned status code " \o resp

\* test_store_data: reply is the handler's answer, or the refused connection.
test_store_data(reply) ==
    IF reply.status = "ConnectionError" THEN "ConnectionError"
    ELSE IF reply.status # OK THEN "Failed to store data: " \o reply.body
    ELSE IF reply.body # "success" THEN "Store data returned error"
    ELSE "none"

\* test_get_data(auid)
test_get_data(reply) ==
    IF reply.status = "ConnectionError" THEN "ConnectionError"
    ELSE IF reply.status # OK THEN "Failed to get data: " \o reply.body
    ELSE IF reply.body # "success" THEN "Get data returned error"
    ELSE IF reply.count = 0 THEN "No documents found for auid"
    ELSE "none"

\* test_invalid_auid
test_invalid_auid(reply) ==
    IF reply.status = "ConnectionError" THEN "ConnectionError"
    ELSE IF reply.status # OK THEN "Failed to get data: " \o reply.body
    ELSE IF reply.count # 0 THEN "Expected 0 documents for nonexistent auid"
    ELSE "none"

\* The harness module defines ES_SERVER_PORT, FASTAPI_PORT, REPORT_PORT,
\* ES_SERVER_SCRIPT, REPORT_DIR and REPORT_FILE, and imports no name from
\* start_es_server.py: ES_INDEX is not a name of the module.
ES_INDEX_defined == FALSE

\* run_verification, the block under `if doc_id:`.  The f-string that builds
\* the URL reads ES_INDEX, so it raises NameError inside the try block,
\* whose except clause logs it; auid keeps the value None.
ExtractAuid(resp) ==
    IF ~ES_INDEX_defined THEN "None"
    ELSE IF resp = OK THEN TEST_AUID
    ELSE "None"

\* The probes of the suite, in the order run_verification runs them.
Suite == <<"Elasticsearch Connection", "Store Data", "Get Data",
           "Invalid AUID">>

\* run_test("Elasticsearch Connection", test_elasticsearch_connection)
HTestConn ==
    /\ hpc = "test_conn"
    /\ \E resp \in Responses :
         LET name == Suite[1]
             exc  == test_elasticsearch_connection(resp)
         IN  /\ test_results' = AppendResult(test_results,
                                             test_result(name, exc))
             /\ invoked' = Append(invoked, name)
    /\ hpc' = "test_store"
    /\ UNCHANGED <<cvars, index, pvars, doc_id, auid, rvars, outcome, svars,
                   sigterm, gvars>>

\* doc_id = run_test("Store Data", test_store_data): run_test returns the
\* success flag, not the value the probe returned.
HTestStore ==
    /\ hpc = "test_store"
    /\ \E connected \in BOOLEAN, esOk \in BOOLEAN :
         LET name  == Suite[2]
             reply == IF connected /\ cpc = "serving"
                      THEN store_data(index, TEST_AUID, esOk)
                      ELSE refused
             exc   == test_store_data(reply)
         IN  /\ index' = reply.index
             /\ test_results' = AppendResult(test_results,
                                             test_result(name, exc))
             /\ invoked' = Append(invoked, name)
             /\ doc_id' = IF exc = "none" THEN "True" ELSE "False"
    /\ hpc' = "extract"
    /\ UNCHANGED <<cvars, pvars, auid, rvars, outcome, svars, sigterm, gvars>>

\* run_verification: `if doc_id:` with the extraction of the auid and the
\* run_test("Get Data", ...) that depends on it.
HExtract ==
    /\ hpc = "extract"
    /\ \E resp \in Responses, connected \in BOOLEAN, esOk \in BOOLEAN :
         LET name  == Suite[3]
             found == IF doc_id = "True" THEN ExtractAuid(resp) ELSE "None"
             reply == IF connected /\ cpc = "serving"
                      THEN get_data(index, found, esOk)
                      ELSE refused
             exc   == test_get_data(reply)
         IN  /\ auid' = found
             /\ IF found # "None"
                THEN /\ test_results' = AppendResult(test_results,
                                                     test_result(name, exc))
                     /\ invoked' = Append(invoked, name)
                ELSE UNCHANGED <<test_results, invoked>>
    /\ hpc' = "test_invalid"
    /\ UNCHANGED <<cvars, index, pvars, doc_id, rvars, outcome, svars,
                   sigterm, gvars>>

\* run_test("Invalid AUID", test_invalid_auid)
HTestInvalid ==
    /\ hpc = "test_invalid"
    /\ \E connected \in BOOLEAN, esOk \in BOOLEAN :
         LET name  == Suite[4]
             reply == IF connected /\ cpc = "serving"
                      THEN get_data(index, NONEXISTENT_AUID, esOk)
                      ELSE refused
             exc   == test_invalid_auid(reply)
         IN  /\ test_results' = AppendResult(test_results,
                                             test_result(name, exc))
             /\ invoked' = Append(invoked, name)
    /\ hpc' = "gen_report"
    /\ UNCHANGED <<cvars, index, pvars, doc_id, auid, rvars, outcome, svars,
                   sigterm, gvars>>

---------------------------------------------------------------------------
(* The report                                                              *)

\* sum(1 for r in test_results if r["success"])
CountAll(results) == Len(results)

RECURSIVE CountPassed(_)
CountPassed(results) ==
    IF results = <<>> THEN 0
    ELSE (IF Head(results).success THEN 1 ELSE 0) + CountPassed(Tail(results))

\* (passed_tests / total_tests) * 100 if total_tests > 0 else 0, as the
\* report prints it with one decimal: the value in tenths of a percent.
SuccessRate(passed, total) ==
    IF total > 0 THEN (2 * 1000 * passed + total) \div (2 * total) ELSE 0

\* generate_html_report: the summary and one table row per result.
generate_html_report(results) ==
    [total  |-> Len(results),
     passed |-> CountPassed(results),
     failed |-> Len(results) - CountPassed(results),
     rate   |-> SuccessRate(CountPassed(results), Len(results)),
     rows   |-> [i \in 1..Len(results) |->
                   [name    |-> results[i].name,
                    status  |-> IF results[i].success THEN "PASS" ELSE "FAIL",
                    message |-> results[i].message]]]

\* report_path = generate_html_report(); an OSError of makedirs or of the
\* write is caught by `except Exception`.
HGenReport ==
    /\ hpc = "gen_report"
    /\ \E ioOk \in BOOLEAN :
         IF ioOk
         THEN /\ reportFile' = generate_html_report(test_results)
              /\ generations' = generations + 1
              /\ hpc' = "start_server"
              /\ UNCHANGED outcome
         ELSE /\ hpc' = "finally"
              /\ outcome' = "Exception"
              /\ UNCHANGED <<reportFile, generations>>
    /\ UNCHANGED <<cvars, index, pvars, tvars, reportServer,
                   report_generated, requests, reportPending, svars,
                   sigterm, gvars>>

\* The position of run_verification at which the report thread is started:
\* the statement that follows report_path = generate_html_report().
StartServerBeforeSuite == "test_conn"

StartServerAt == "start_server"

\* The report thread is started and the browser opened; run_verification
\* then stays in `while True: time.sleep(1)`.
HStartServer ==
    /\ hpc = StartServerAt
    /\ reportServer' = TRUE
    /\ hpc' = "serve"
    /\ UNCHANGED <<cvars, index, pvars, tvars, reportFile, report_generated,
                   generations, requests, reportPending, outcome,
                   svars, sigterm, gvars>>

\* The report thread is a daemon thread of the harness process: it runs
\* whatever the main flow is doing, for as long as the process lives.
ReportThreadOnMainFlow(pc) == pc \notin {"killed", "returned", "serve"}

ReportThreadRuns(pc) == pc \notin {"killed", "returned"}

\* A client (the browser webbrowser.open starts, or any other) sends
\* GET / to the report server.
ReportRequest ==
    /\ reportServer
    /\ hpc \notin {"killed", "returned"}
    /\ ~reportPending
    /\ requests < MaxRequests
    /\ requests' = requests + 1
    /\ reportPending' = TRUE
    /\ UNCHANGED <<cvars, index, hpc, pvars, tvars, reportFile, reportServer,
                   report_generated, generations, outcome, svars, sigterm,
                   gvars>>

\* get_report, run by the report thread: generate the report unless
\* report_generated is set, then answer with the content of the file.  An
\* OSError of the generation makes the answer an error answer.
GetReport ==
    /\ reportServer
    /\ reportPending
    /\ ReportThreadRuns(hpc)
    /\ reportPending' = FALSE
    /\ IF ~report_generated
       THEN \E ioOk \in BOOLEAN :
              IF ioOk
              THEN /\ reportFile' = generate_html_report(test_results)
                   /\ generations' = generations + 1
                   /\ report_generated' = TRUE
              ELSE UNCHANGED <<reportFile, generations, report_generated>>
       ELSE UNCHANGED <<reportFile, generations, report_generated>>
    /\ UNCHANGED <<cvars, index, hpc, pvars, tvars, reportServer, requests,
                   outcome, svars, sigterm, gvars>>

---------------------------------------------------------------------------
(* stop_es_server                                                          *)

\* `if es_server_process:`
HasProcess(p) == p # "None"

\* subprocess.Popen is called without start_new_session (and without a
\* preexec_fn) by start_es_server, start_elasticsearch and start_kibana
\* alike: the new process stays in the process group of the process that
\* starts it.
start_new_session == [s \in Services |-> FALSE]

\* The process that starts each service.
Parent(p) == IF p = "api" THEN "harness" ELSE "api"

\* The process group of a process, named by its leader.
RECURSIVE Pgid(_)
Pgid(p) ==
    IF p = "harness" THEN "harness"
    ELSE IF start_new_session[p] THEN p
    ELSE Pgid(Parent(p))

\* The processes that exist: the harness, and every service spawned so far
\* (a process that has ended and has not been collected keeps its pid).
Processes ==
    {"harness"} \cup {s \in Services : spawns[s] > 0 /\ s \notin spawnFailed}

\* os.killpg(os.getpgid(pid), SIGTERM): the processes of the group of p.
GroupOf(p) == {q \in Processes : Pgid(q) = Pgid(p)}

\* Where control goes when stop_es_server ends: run_verification calls it
\* as the last statement of its finally block.
StopReturnPc == IF caller = "run_verification" THEN "returned" ELSE "caller"

\* stop_es_server up to os.killpg.  os.getpgid raises ProcessLookupError
\* when the pid has been collected by an earlier wait.  The API process was
\* started without a new session, so its process group is the harness's
\* own: the signal also reaches the harness, which ends there when SIGTERM
\* has its default disposition.
StopSignal ==
    /\ stopCalls' = stopCalls + 1
    /\ IF ~HasProcess(es_server_process)
       THEN /\ stopDone' = stopDone + 1
            /\ stopError' = "none"
            /\ hpc' = StopReturnPc
            /\ UNCHANGED <<termSignals, outcome, sigterm, gvars>>
       ELSE IF reaped
       THEN /\ stopDone' = stopDone + 1
            /\ stopError' = "ProcessLookupError"
            /\ hpc' = StopReturnPc
            /\ outcome' = IF caller = "run_verification"
                          THEN "ProcessLookupError" ELSE outcome
            /\ UNCHANGED <<termSignals, sigterm, gvars>>
       ELSE /\ termSignals' = termSignals + 1
            /\ signalled' = signalled \cup GroupOf("api")
            /\ IF "harness" \in GroupOf("api")
               THEN \E disposition \in {"default", "handled"} :
                      /\ sigterm \in {"unset", disposition}
                      /\ sigterm' = disposition
                      /\ hpc' = IF disposition = "default" THEN "killed"
                                ELSE "stop_wait"
               ELSE hpc' = "stop_wait" /\ UNCHANGED sigterm
            /\ UNCHANGED <<stopDone, stopError, outcome, lvars>>
    /\ UNCHANGED <<cvars, index, pvars, tvars, rvars, reaped, caller>>

\* run_verification: finally: stop_es_server()
HFinally ==
    /\ hpc = "finally"
    /\ StopSignal

\* stop_es_server: es_server_process.wait(timeout=5).  The wait collects
\* the process when it has ended; otherwise it raises TimeoutExpired, which
\* leaves stop_es_server (and the finally block of run_verification).  A
\* process that met the signal under its default disposition has ended by
\* the time the wait looks.
StopWait ==
    /\ hpc = "stop_wait"
    /\ cpc # "spawned"
    /\ stopDone' = stopDone + 1
    /\ hpc' = StopReturnPc
    /\ IF cpc \notin Running
       THEN /\ reaped' = TRUE
            /\ stopError' = "none"
            /\ UNCHANGED outcome
       ELSE /\ stopError' = "TimeoutExpired"
            /\ outcome' = IF caller = "run_verification"
                          THEN "TimeoutExpired" ELSE outcome
            /\ UNCHANGED reaped
    /\ UNCHANGED <<cvars, index, pvars, tvars, rvars, termSignals, stopCalls,
                   caller, sigterm, gvars>>

---------------------------------------------------------------------------
(* A user of the module's functions: start_es_server once, stop_es_server  *)
(* any number of times.                                                    *)

UserStart ==
    /\ caller = "module_user"
    /\ hpc = "caller"
    /\ started = "pending"
    /\ hpc' = "launch"
    /\ UNCHANGED <<cvars, index, pvars, tvars, rvars, outcome, svars,
                   sigterm, gvars>>

UserStop ==
    /\ caller = "module_user"
    /\ hpc = "caller"
    /\ stopCalls < MaxStopCalls
    /\ StopSignal

---------------------------------------------------------------------------
(* Specifications                                                          *)

InitCommon ==
    /\ cpc = "none"
    /\ cretries = 0
    /\ esStatus = "pending"
    /\ indexStatus = "pending"
    /\ kbStatus = "pending"
    /\ esLaunched = FALSE
    /\ kbLaunched = FALSE
    /\ startup_exception = "none"
    /\ index = {}      \* no document with an auid of this run exists yet
    /\ es_server_process = "None"
    /\ attempts = 0
    /\ started = "pending"
    /\ lastEs = "unasked"
    /\ lastApi = "unasked"
    /\ everBoth = FALSE
    /\ test_results = <<>>
    /\ invoked = <<>>
    /\ doc_id = "unset"
    /\ auid = "unset"
    /\ reportFile = "absent"
    /\ reportServer = FALSE
    /\ report_generated = FALSE
    /\ generations = 0
    /\ requests = 0
    /\ reportPending = FALSE
    /\ outcome = "running"
    /\ termSignals = 0
    /\ stopCalls = 0
    /\ stopDone = 0
    /\ stopError = "none"
    /\ reaped = FALSE
    /\ sigterm = "unset"
    /\ signalled = {}
    /\ spawns = [s \in Services |-> 0]
    /\ spawnFailed = {}
    /\ polled = {}
    /\ prechecked = [s \in Services |-> "none"]
    /\ flapping = {}

\* The script: `if __name__ == "__main__": run_verification()`.
Init ==
    /\ InitCommon
    /\ caller = "run_verification"
    /\ hpc = "launch"

Next ==
    \/ HLaunch
    \/ HPoll
    \/ HBlock
    \/ Interrupt
    \/ HTestConn
    \/ HTestStore
    \/ HExtract
    \/ HTestInvalid
    \/ HGenReport
    \/ HStartServer
    \/ ReportRequest
    \/ GetReport
    \/ HFinally
    \/ StopWait
    \/ ChildNext

Spec == Init /\ [][Next]_vars

\* The module's functions called by a user of the module.
InitStop ==
    /\ InitCommon
    /\ caller = "module_user"
    /\ hpc = "caller"

NextStop ==
    \/ UserStart
    \/ HLaunch
    \/ HPoll
    \/ HBlock
    \/ UserStop
    \/ StopWait
    \/ ChildNext

SpecStop == InitStop /\ [][NextStop]_vars

\* run_verification with the report thread scheduled: a request that
\* get_report can answer is not left waiting forever.
SpecLive == Init /\ [][Next]_vars /\ WF_vars(GetReport)

\* run_test and generate_html_report called by a user of the module.
InitReport ==
    /\ InitCommon
    /\ caller = "report_user"
    /\ hpc = "caller"

RECURSIVE ExceptionText(_)
\* str(e) of an exception a probe raises: a text of n characters.
ExceptionText(n) == IF n = 0 THEN "" ELSE "x" \o ExceptionText(n - 1)

\* run_test(name, probe) with a probe that returns or raises.
UserRunTest ==
    /\ caller = "report_user"
    /\ Len(test_results) < MaxResults
    /\ \E name \in {Suite[1], Suite[2]},
          exc \in {"none"} \cup {ExceptionText(n) : n \in 0..MaxTextLen} :
         /\ test_results' = AppendResult(test_results,
                                         test_result(name, exc))
         /\ invoked' = Append(invoked, name)
    /\ UNCHANGED <<cvars, index, hpc, pvars, doc_id, auid, rvars, outcome,
                   svars, sigterm, gvars>>

\* generate_html_report()
UserGenerate ==
    /\ caller = "report_user"
    /\ generations < MaxGenerations
    /\ reportFile' = generate_html_report(test_results)
    /\ generations' = generations + 1
    /\ UNCHANGED <<cvars, index, hpc, pvars, tvars, reportServer,
                   report_generated, requests, reportPending, outcome, svars,
                   sigterm, gvars>>

NextReport ==
    \/ UserRunTest
    \/ UserGenerate

SpecReport == InitReport /\ [][NextReport]_vars

---------------------------------------------------------------------------
(* Properties                                                              *)

\* C1: halt-on-failure ordering of startup_event.  When start_elasticsearch
\* did not see Elasticsearch ready within its retry budget, neither the
\* index setup nor Kibana's launch ever happens; when the index setup
\* failed, Kibana is never launched; Kibana is launched only in a run where
\* Elasticsearch became ready and the index was set up.
HaltOnFailure ==
    /\ esStatus \in {"timeout", "error"} =>
          indexStatus = "pending" /\ kbStatus = "pending" /\ ~kbLaunched
    /\ indexStatus = "error" => kbStatus = "pending" /\ ~kbLaunched
    /\ kbLaunched => esStatus = "ready" /\ indexStatus = "ready"
    /\ kbStatus # "pending" => esStatus = "ready" /\ indexStatus = "ready"

\* C1 witness: Elasticsearch was launched, its 30 polls all failed, and the
\* startup ended there.
HaltOnFailureWitness ==
    esLaunched /\ esStatus = "timeout" /\ cpc = "failed"

\* C2: a probe runs only after start_es_server returned True, which it does
\* only after an attempt saw the success status from both Elasticsearch
\* and the API; when start_es_server returned False no result is recorded.
ProbesOnlyAfterReady ==
    /\ (test_results # <<>> \/ invoked # <<>>) =>
          started = "True" /\ everBoth
    /\ hpc \in {"test_conn", "test_store", "extract", "test_invalid"} =>
          started = "True" /\ everBoth
    /\ started \in {"False", "raised"} => test_results = <<>> /\ invoked = <<>>

\* C2 witness: a probe has been recorded in a run whose bootstrap succeeded.
ProbesOnlyAfterReadyWitness ==
    started = "True" /\ Len(test_results) >= 1

\* C3: whenever run_verification has ended (returned, raised, or died of
\* the signal its own stop sent) and the API process had been launched,
\* the termination signal has been sent to it.
StopSignalledBeforeExit ==
    (hpc \in {"returned", "killed"} /\ es_server_process = "proc") =>
        termSignals >= 1

\* C3 witness: an interrupt during the serve-forever loop, after which
\* run_verification returned with the signal sent.
StopSignalledBeforeExitWitness ==
    /\ hpc = "returned"
    /\ outcome = "KeyboardInterrupt"
    /\ reportServer
    /\ es_server_process = "proc"
    /\ termSignals = 1

\* Positions of run_verification after the last probe of the suite.
AfterSuite == {"gen_report", "start_server", "serve"}

\* Some recorded result has this name and this success flag.
Recorded(name, flag) ==
    \E i \in 1..Len(test_results) :
        test_results[i].name = name /\ test_results[i].success = flag

\* C4: probe isolation.  A failure of a probe does not leave run_test: it
\* is recorded with success = false (every invocation has its result), and
\* the probe that follows it in the suite is executed all the same: once
\* the suite is over, every probe that follows a failed probe has been
\* invoked.
ProbeIsolation ==
    /\ Len(test_results) = Len(invoked)
    /\ hpc \in AfterSuite =>
          \A k \in 1..(Len(Suite) - 1) :
              Recorded(Suite[k], FALSE) =>
                  \E j \in 1..Len(invoked) : invoked[j] = Suite[k + 1]

\* C5: the full-pass scenario.  The connectivity probe and the write probe
\* succeeded, the API holds one record for the auid just written and none
\* for the nonexistent auid, and the negative lookup succeeded: the run
\* records the four results of the suite and the report shows 4/4 passed,
\* success rate 100.0.
FullPassScenario ==
    ( /\ hpc \in {"start_server", "serve"}
      /\ Recorded(Suite[1], TRUE)
      /\ Recorded(Suite[2], TRUE)
      /\ get_data(index, TEST_AUID, TRUE).count = 1
      /\ get_data(index, NONEXISTENT_AUID, TRUE).count = 0
      /\ Recorded(Suite[4], TRUE) )
    => ( /\ Len(test_results) = 4
         /\ [i \in 1..4 |-> test_results[i].name] = Suite
         /\ reportFile.total = 4
         /\ reportFile.passed = 4
         /\ reportFile.rate = 1000 )

\* C6: the dependent probe with a missing prerequisite.  When the store
\* probe failed, or the auid could not be obtained, the retrieve probe is
\* still recorded, with success = false.
DependentProbeRecorded ==
    (hpc \in AfterSuite /\ (doc_id = "False" \/ auid = "None")) =>
        Recorded("Get Data", FALSE)

\* a is an initial segment of b
IsPrefix(a, b) == Len(a) <= Len(b) /\ SubSeq(b, 1, Len(a)) = a

\* C7: result order.  test_results holds one result per run_test
\* invocation, in invocation order, and a step of the program only ever
\* extends it at the end: what was appended stays, unchanged, in place.
ResultOrder ==
    /\ [](/\ Len(test_results) = Len(invoked)
          /\ \A i \in 1..Len(invoked) : test_results[i].name = invoked[i])
    /\ [][IsPrefix(test_results, test_results')]_vars

\* C7 witness: three invocations with a failure between two passes.
ResultOrderWitness ==
    /\ Len(test_results) = 3
    /\ test_results[1].success
    /\ ~test_results[2].success
    /\ test_results[3].success

\* C8: the health poll of start_es_server.  At most max_retries attempts;
\* True exactly when an attempt saw the success status from both
\* Elasticsearch and the API (and then at that attempt); an attempt that
\* met a refused connection or another status is followed by the next
\* attempt while attempts remain, and never makes start_es_server raise;
\* False only after max_retries attempts, none of which saw both.
HealthPollResult ==
    /\ attempts <= max_retries
    /\ started = "True" => everBoth /\ lastEs = OK /\ lastApi = OK
    /\ everBoth => started = "True"
    /\ started = "False" => attempts = max_retries /\ ~everBoth
    /\ (started = "pending" /\ attempts > 0) =>
          /\ attempts < max_retries
          /\ hpc \in {"poll", "blocked"}
          /\ lastEs \in {"503", "ConnectionError"}
                \/ (lastEs = OK /\ lastApi \in {"503", "ConnectionError"})
    /\ (started = "raised" /\ attempts > 0 /\ outcome = "Exception") =>
          "RequestException" \in {lastEs, lastApi}

\* C8 witness: 29 attempts without success, then success at the last one.
HealthPollResultWitness ==
    started = "True" /\ attempts = max_retries

\* C9: a readiness timeout is reported, not raised.  A service that did not
\* become ready within its budget leaves no uncaught exception behind: not
\* out of startup_event, and not out of run_verification.
ReadinessTimeoutReported ==
    /\ (esStatus = "timeout" \/ kbStatus = "timeout") =>
          startup_exception = "none"
    /\ started = "False" => outcome \in {"False", "TimeoutExpired"}

\* C10: stop_es_server is idempotent.  Once it has been called on a
\* launched process, a further call sends no further signal and raises no
\* error; without a launched process a call does nothing.
StopIdempotent ==
    /\ (es_server_process = "proc" /\ stopCalls >= 2) =>
          /\ termSignals <= 1
          /\ (stopDone = stopCalls => stopError = "none")
    /\ es_server_process = "None" => termSignals = 0 /\ stopError = "none"

\* C11: stop escalation.  stop_es_server returns normally with the process
\* terminated even when the process does not end on the graceful signal
\* within the grace period: a call that sent the signal and has ended has
\* raised nothing and has left no running process behind.
StopEscalates ==
    (es_server_process = "proc" /\ termSignals >= 1 /\ stopDone = stopCalls
       /\ hpc # "killed") =>
        stopError = "none" /\ cpc \notin Running

\* C12: detached launch.  The process start_es_server launches runs in a
\* process group of its own, so the signal stop_es_server sends to that
\* group is never delivered to the harness process.
DetachedLaunch ==
    /\ "api" \in Processes => Pgid("api") # Pgid("harness")
    /\ "harness" \notin signalled

\* C13: generate-once.  Within one verification run generate_html_report
\* is executed at most once: after run_verification has generated the
\* report, a request to get_report does not generate it again.
GenerateOnce == generations <= 1

\* |x|
Abs(x) == IF x < 0 THEN 0 - x ELSE x

\* C14: report statistics.  In every generated report, total is the number
\* of results, passed the number of results with success, failed is
\* total - passed, and the success rate is passed/total as a percentage
\* (here in tenths of a percent, rounded to the nearest), 0 for the empty
\* sequence.
ReportStatistics ==
    generations > 0 =>
        LET r  == reportFile
            ok == {i \in 1..Len(r.rows) : r.rows[i].status = "PASS"}
        IN  /\ r.total = Len(r.rows)
            /\ r.passed = Cardinality(ok)
            /\ r.failed = r.total - r.passed
            /\ r.failed = Cardinality((1..Len(r.rows)) \ ok)
            /\ r.total = 0 => r.rate = 0
            /\ r.total > 0 =>
                  2 * Abs(r.rate * r.total - 1000 * r.passed) <= r.total

\* C14 witness: a report of three results of which two passed, success
\* rate 66.7.
ReportStatisticsWitness ==
    /\ generations > 0
    /\ reportFile.total = 3
    /\ reportFile.passed = 2
    /\ reportFile.failed = 1
    /\ reportFile.rate = 667

\* C15: no indefinite blocking.  No network call of the bootstrap or of a
\* probe waits without limit for an endpoint that accepted the connection
\* and never answers.
NoIndefiniteBlocking == hpc # "blocked" /\ cpc # "blocked"

ReportReachable ==
    (reportPending /\ hpc = "serve") ~> (~reportPending \/ hpc # "serve")

\* C17 witness: a request has been answered while the main flow is in the
\* serve-forever loop.
ReportReachableWitness ==
    hpc = "serve" /\ requests = 1 /\ ~reportPending

\* C18: already-running skip.  For every service of the bootstrap, no
\* process is launched when the health check made before the launch found
\* a healthy instance, and a process is launched only after that check
\* did not succeed.
AlreadyRunningSkip ==
    \A s \in Services :
        /\ prechecked[s] = "healthy" => spawns[s] = 0
        /\ spawns[s] > 0 => prechecked[s] = "unhealthy"

\* C19: flapping health check.  The poll of a service whose health check
\* flaps makes at most max_retries attempts and never waits without limit:
\* while start_es_server has not ended, it is between two attempts with
\* attempts left.
FlappingBounded ==
    (flapping # {} /\ started = "pending") =>
        hpc = "poll" /\ attempts < max_retries

\* C20: descendant termination.  Once the harness has ended after
\* stop_es_server sent its signal, every Elasticsearch or Kibana process
\* the API process spawned has received the signal.
DescendantsTerminated ==
    (hpc \in {"returned", "killed"} /\ termSignals >= 1) =>
        \A s \in {"es", "kibana"} : s \in Processes => s \in signalled

\* A length the message of the longest exception text exceeds when it is
\* stored whole.
MessageLimit == Len("Test failed: ") + MaxTextLen - 1

\* C21: bounded failure message.  The message of a failed result is the
\* exception's text cut to a fixed length, so no recorded message is longer
\* than that length however long the exception text is.
BoundedFailureMessage ==
    \A i \in 1..Len(test_results) :
        ~test_results[i].success =>
            Len(test_results[i].message) <= MessageLimit

\* C22: budget consistency.  start_es_server returns False after its 30
\* attempts only when the bootstrap of the API process it launched has
\* failed: a readiness budget of Elasticsearch or Kibana was exhausted, a
\* launch failed, or the startup ended with another error.  It never does
\* so while the startup is still within its budgets.
BudgetConsistency ==
    started = "False" =>
        \/ esStatus = "timeout"
        \/ kbStatus = "timeout"
        \/ spawnFailed # {}
        \/ cpc = "failed"

\* C23: complete report.  Once the report server has been started, no
\* probe of the run remains to be run, the report has been generated, and
\* the file get_report answers with has one row for each result of
\* test_results, in execution order, and at least one row.
CompleteReport ==
    reportServer =>
        /\ hpc \in {"serve", "finally", "stop_wait", "returned", "killed"}
        /\ generations > 0
        /\ Len(reportFile.rows) = Len(test_results)
        /\ Len(reportFile.rows) = Len(invoked)
        /\ Len(reportFile.rows) >= 1
        /\ \A i \in 1..Len(test_results) :
              /\ reportFile.rows[i].name = invoked[i]
              /\ reportFile.rows[i].name = test_results[i].name
              /\ reportFile.rows[i].message = test_results[i].message
              /\ (reportFile.rows[i].status = "PASS") = test_results[i].success

\* C23 witness: get_report has answered a request, generating the report
\* of the three results of the run.
CompleteReportWitness ==
    /\ reportServer
    /\ report_generated
    /\ requests >= 1
    /\ ~reportPending
    /\ Len(reportFile.rows) = 3

=============================================================================
